---- MODULE Spec2Model ----
(***************************************************************************)
(* State-machine model of src/src/quant_sig.cpp: the four hash counters    *)
(* HashesCounter, WeightedHashesCounter, WeightedHashesCounterUncapped and *)
(* SamplesKmerDosageHybridCounter.                                         *)
(*                                                                         *)
(* A phmap::parallel_flat_hash_map is modelled as the sequence of its      *)
(* records in iteration order.  The position a new key takes in that order *)
(* is decided by the hash function and the table layout, so an insertion   *)
(* may put the record at any position.                                     *)
(*                                                                         *)
(* A float is an IEEE binary32 number, modelled by its 24-bit significand   *)
(* and its exponent; division, multiplication and addition round to        *)
(* nearest, ties to even, as the hardware does.  Subnormals, infinities    *)
(* and NaN do not occur on the inputs drawn.                               *)
(***************************************************************************)
EXTENDS Integers, Sequences, FiniteSets, TLC

\* ---------------------------------------------------------------- bounds
NumHashes == 2
MaxLen == 2
MaxIngested == 3
NumThreads == 2

\* ------------------------------------------------------- float (binary32)
\* bits of the significand of a float
MantissaBits == 24

\* the float mant * 2^exp, with 2^23 <= |mant| < 2^24, or 0
Float(m, e) == [mant |-> m, exp |-> e]
Zero == Float(0, 0)

\* how many low bits n has beyond a significand
RECURSIVE Excess(_)
Excess(n) == IF n < 2^MantissaBits THEN 0 ELSE 1 + Excess(n \div 2)

\* the float nearest to n * 2^e (plus, when sticky, a positive amount below
\* 2^e), ties to even; n >= 0, and n has bits to drop whenever sticky
RECURSIVE Pack(_, _, _)
Pack(n, e, sticky) ==
  IF n = 0 THEN Zero
  ELSE IF n < 2^(MantissaBits - 1) THEN Pack(2 * n, e - 1, sticky)
  ELSE LET k == Excess(n)
           q == n \div 2^k
           r == n % 2^k
           up == k > 0 /\ (\/ 2 * r > 2^k
                           \/ 2 * r = 2^k /\ (sticky \/ q % 2 = 1))
       IN IF ~up THEN Float(q, e + k)
          ELSE IF q + 1 = 2^MantissaBits THEN Float(2^(MantissaBits - 1), e + k + 1)
          ELSE Float(q + 1, e + k)

Abs(n) == IF n < 0 THEN 0 - n ELSE n
Signed(n, x) == IF n < 0 THEN Float(0 - x.mant, x.exp) ELSE x

\* the float a whole number converts to
F(n) == Signed(n, Pack(Abs(n), 0, FALSE))

\* the float 1.0f
One == F(1)


\* The map has 2^6 submaps, each behind its own mutex.  They are
\* interchangeable, and only which keys share a submap matters, so the model
\* keeps as many submaps as there are keys.
Submaps == 0..(NumHashes - 1)

Hashes == 1..NumHashes
Threads == 1..NumThreads
\* inputs of the weighted counters: 41.0f is a mean whose reciprocal is inexact
Abundances == {F(2), F(41)}
Means == {F(2), F(41)}
\* inputs of the hybrid counter: 2^25 / 2 is the first dosage a float cannot
\* add 1.0f to
HybridAbundances == {F(2), F(5), F(41), F(2^(MantissaBits + 1))}
NegAbundances == {F(0 - 2)}
HybridMeans == {F(2), F(82)}
Thresholds == 0..MaxIngested

SeqsUpTo(S, n) == UNION {[1..k -> S] : k \in 0..n}
Batches == SeqsUpTo(Hashes, MaxLen)

VARIABLES
  kind,              \* which class the object under test is an instance of
  hash_to_count,     \* HashesCounter / WeightedHashesCounter :: hash_to_count
  hash_to_score,     \* WeightedHashesCounter :: hash_to_score
  hybrid,            \* SamplesKmerDosageHybridCounter :: hash_to_count
  lastOp,            \* the last call: its name, its argument (a threshold; for add_hashes
                     \* whether the two vectors differ in length), and whether it repeats
                     \* the call before it
  ret,               \* what the last call returned
  oob,               \* the last call read abundances[i] with i past the end
  dangling,          \* the last call advanced a cursor whose record it had erased
  occ,               \* history: occurrences of each hash ingested since its record was made
  samples,           \* history: ingest calls whose batch held the hash, since its record was made
  unit,              \* history: every occurrence of the hash ingested since its record was
                     \* made had abundances[i] == mean_abundance
  exact,             \* history: twice the sum of abundance / mean over the occurrences of
                     \* each hash since its record was made, computed without rounding
  pruned,            \* history: a prune or finalize pass has run
  lock,              \* concurrent ingest: owner of each submap's mutex (0: free)
  batch,             \* concurrent ingest: the batch each producer thread was given
  pc,                \* concurrent ingest: position of each thread inside add_hashes
  idx,               \* concurrent ingest: loop index of each thread
  tmp,               \* concurrent ingest: the value a thread loaded for its increment
  stale,             \* concurrent ingest: the record a thread refers to has been moved
  subidx             \* concurrent ingest: the submap each hash falls into

vars == <<kind, hash_to_count, hash_to_score, hybrid, lastOp, ret, oob, dangling,
          occ, samples, unit, exact, pruned, lock, batch, pc, idx, tmp, stale, subidx>>

seqVars == <<kind, hash_to_count, hash_to_score, hybrid, lastOp, ret, oob, dangling,
             occ, samples, unit, exact, pruned>>
concVars == <<lock, batch, pc, idx, tmp, stale, subidx>>

\* ------------------------------------------------- the map as a sequence
Rec(k, v) == [key |-> k, val |-> v]

Keys(m) == {m[i].key : i \in 1..Len(m)}

\* find(): the position of key k, 0 when absent (end())
Find(m, k) == IF k \in Keys(m) THEN CHOOSE i \in 1..Len(m) : m[i].key = k ELSE 0

Lookup(m, k) == m[Find(m, k)].val

InsertAt(m, p, r) == SubSeq(m, 1, p - 1) \o <<r>> \o SubSeq(m, p, Len(m))

EraseAt(m, p) == SubSeq(m, 1, p - 1) \o SubSeq(m, p + 1, Len(m))

\* the maps that emplacing (k, v) can give: unchanged when k is present
EmplaceAlways(m, k, v) == {InsertAt(m, p, Rec(k, v)) : p \in 1..(Len(m) + 1)}

Emplace(m, k, v) ==
  IF k \in Keys(m) THEN {m}
  ELSE {InsertAt(m, p, Rec(k, v)) : p \in 1..(Len(m) + 1)}

\* value of an unordered_map built by walking m
AsMap(m) == [k \in Keys(m) |-> Lookup(m, k)]

Size(m) == Len(m)

\* what a call gives back: nothing, a uint64_t, an unordered_map, a vector, or
\* the exception it threw
Void == [void |-> TRUE]
Number(n) == [number |-> n]
Mapping(f) == [mapping |-> f]
Array(a) == [array |-> a]
Thrown(e) == [thrown |-> e]

\* 1 when the two vectors of an add_hashes call differ in length
Mismatch(hashes, abundances) == IF Len(hashes) # Len(abundances) THEN 1 ELSE 0

NoOp == [name |-> "init", arg |-> 0, repeat |-> FALSE]
Op(n, a) == [name |-> n, arg |-> a, repeat |-> FALSE]

RECURSIVE SumOver(_, _)
SumOver(f, S) ==
  IF S = {} THEN 0
  ELSE LET x == CHOOSE y \in S : TRUE IN f[x] + SumOver(f, S \ {x})

\* ghost bookkeeping of an ingest call that returned normally
CountIn(hashes, k) == Cardinality({i \in 1..Len(hashes) : hashes[i] = k})
OccAfter(hashes) == [k \in Hashes |-> occ[k] + CountIn(hashes, k)]
SamplesAfter(hashes) ==
  [k \in Hashes |-> samples[k] + (IF CountIn(hashes, k) > 0 THEN 1 ELSE 0)]
RECURSIVE ExactAfter(_, _, _, _)
ExactAfter(e, hashes, twice, i) ==
  IF i > Len(hashes) THEN e
  ELSE ExactAfter([e EXCEPT ![hashes[i]] = @ + twice[i]], hashes, twice, i + 1)
\* ghost bookkeeping of a pass that left the records of the keys in live
Forget(h, live) == [k \in Hashes |-> IF k \in live THEN h[k] ELSE 0]
ForgetUnit(live) == [k \in Hashes |-> IF k \in live THEN unit[k] ELSE TRUE]
UnitAfter(hashes, abundances, mean_abundance) ==
  [k \in Hashes |->
     /\ unit[k]
     /\ \A i \in 1..Len(hashes) :
          hashes[i] = k => (i <= Len(abundances) /\ abundances[i] = mean_abundance)]
WithinBound(hashes) == SumOver(occ, Hashes) + Len(hashes) <= MaxIngested

\* ------------------------------------------------------- HashesCounter
\* hash_to_count[hash_val]++ : operator[] value-initialises a missing record to 0
IncrementedOnce(m, k) == [m EXCEPT ![Find(m, k)].val = 1]
Incremented(m, k) == [m EXCEPT ![Find(m, k)].val = @ + 1]

RECURSIVE AddHashesFrom(_, _, _)
AddHashesFrom(m, hashes, i) ==
  IF i > Len(hashes) THEN {m}
  ELSE UNION {AddHashesFrom(Incremented(m1, hashes[i]), hashes, i + 1) :
                m1 \in Emplace(m, hashes[i], 0)}

add_hashes ==
  /\ kind = "presence"
  /\ \E hashes \in Batches :
       /\ WithinBound(hashes)
       /\ \E m \in AddHashesFrom(hash_to_count, hashes, 1) : hash_to_count' = m
       /\ occ' = OccAfter(hashes)
       /\ lastOp' = Op("add_hashes", 0)
  /\ ret' = Void
  /\ oob' = FALSE
  /\ dangling' = FALSE
  /\ UNCHANGED <<kind, hash_to_score, hybrid, samples, unit, exact, pruned>>
  /\ UNCHANGED concVars

\* for (it = begin(); it != end();) if (it->second == 1) it = erase(it), ++n; else ++it;
\* after it = erase(it) the cursor is at the record that followed the erased one,
\* which in the shortened sequence has the erased record's index
RECURSIVE RemoveSingletonsThenAdvance(_, _, _)
RemoveSingletonsThenAdvance(m, it, n) ==
  IF it > Len(m) THEN [map |-> m, ret |-> n]
  ELSE IF m[it].val = 1 THEN RemoveSingletonsThenAdvance(EraseAt(m, it), it + 1, n + 1)
  ELSE RemoveSingletonsThenAdvance(m, it + 1, n)

RECURSIVE RemoveSingletonsFrom(_, _, _)
RemoveSingletonsFrom(m, it, n) ==
  IF it > Len(m) THEN [map |-> m, ret |-> n]
  ELSE IF m[it].val = 1 THEN RemoveSingletonsFrom(EraseAt(m, it), it, n + 1)
  ELSE RemoveSingletonsFrom(m, it + 1, n)

remove_singletons ==
  /\ kind = "presence"
  /\ LET r == RemoveSingletonsFrom(hash_to_count, 1, 0) IN
       /\ hash_to_count' = r.map
       /\ ret' = Number(r.ret)
       /\ occ' = Forget(occ, Keys(r.map))
  /\ lastOp' = Op("remove_singletons", 0)
  /\ pruned' = TRUE
  /\ oob' = FALSE
  /\ dangling' = FALSE
  /\ UNCHANGED <<kind, hash_to_score, hybrid, samples, unit, exact>>
  /\ UNCHANGED concVars

\* for (it = begin(); it != end();) if (it->second < min_abundance) it = erase(it); else ++it;
RECURSIVE KeepMinAbundanceThenAdvance(_, _, _)
KeepMinAbundanceThenAdvance(m, it, min_abundance) ==
  IF it > Len(m) THEN m
  ELSE IF m[it].val < min_abundance
       THEN KeepMinAbundanceThenAdvance(EraseAt(m, it), it + 1, min_abundance)
  ELSE KeepMinAbundanceThenAdvance(m, it + 1, min_abundance)

RECURSIVE KeepMinAbundanceFrom(_, _, _)
KeepMinAbundanceFrom(m, it, min_abundance) ==
  IF it > Len(m) THEN m
  ELSE IF m[it].val < min_abundance
       THEN KeepMinAbundanceFrom(EraseAt(m, it), it, min_abundance)
  ELSE KeepMinAbundanceFrom(m, it + 1, min_abundance)

keep_min_abundance ==
  /\ kind = "presence"
  /\ \E min_abundance \in Thresholds :
       /\ hash_to_count' = KeepMinAbundanceFrom(hash_to_count, 1, min_abundance)
       /\ occ' = Forget(occ, Keys(hash_to_count') \cup Keys(hash_to_score))
       /\ lastOp' = [name |-> "keep_min_abundance", arg |-> min_abundance,
                     repeat |-> (lastOp.name = "keep_min_abundance"
                                 /\ lastOp.arg = min_abundance)]
  /\ ret' = Void
  /\ pruned' = TRUE
  /\ oob' = FALSE
  /\ dangling' = FALSE
  /\ UNCHANGED <<kind, hash_to_score, hybrid, samples, unit, exact>>
  /\ UNCHANGED concVars

size ==
  /\ kind = "presence"
  /\ ret' = Number(Size(hash_to_count))
  /\ lastOp' = Op("size", 0)
  /\ oob' = FALSE
  /\ dangling' = FALSE
  /\ UNCHANGED <<kind, hash_to_count, hash_to_score, hybrid, occ, samples, unit, exact, pruned>>
  /\ UNCHANGED concVars

\* result[it->first] = it->second for every record
GetKmers(m) == AsMap(m)

get_kmers ==
  /\ kind = "presence"
  /\ ret' = Mapping(GetKmers(hash_to_count))
  /\ lastOp' = Op("get_kmers", 0)
  /\ oob' = FALSE
  /\ dangling' = FALSE
  /\ UNCHANGED <<kind, hash_to_count, hash_to_score, hybrid, occ, samples, unit, exact, pruned>>
  /\ UNCHANGED concVars

\* ----------------------------- WeightedHashesCounter (capped and uncapped)
\* long division: steps more bits of the quotient whose integer part is q
RECURSIVE LongDiv(_, _, _, _)
LongDiv(rem, d, q, steps) ==
  IF steps = 0 THEN <<q, rem>>
  ELSE IF 2 * rem >= d THEN LongDiv(2 * rem - d, d, 2 * q + 1, steps - 1)
  ELSE LongDiv(2 * rem, d, 2 * q, steps - 1)

\* x / y in float, for positive x and y
FDiv(x, y) ==
  LET qr == LongDiv(x.mant % y.mant, y.mant, x.mant \div y.mant, MantissaBits + 2)
  IN Pack(qr[1], x.exp - y.exp - (MantissaBits + 2), qr[2] # 0)

\* x * y in float: the 48-bit product of the significands, by halves of 12 bits
FMul(x, y) ==
  LET h == 2^(MantissaBits \div 2)
      a == Abs(x.mant)
      b == Abs(y.mant)
      mid == (a \div h) * (b % h) + (a % h) * (b \div h)
      low == (mid % h) * h + (a % h) * (b % h)
      high == (a \div h) * (b \div h) + mid \div h + low \div (h * h)
      rest == low % (h * h)
      u == 2^(MantissaBits - 6)
  IN Signed(IF (x.mant < 0) = (y.mant < 0) THEN 1 ELSE 0 - 1,
            Pack(high * 2^6 + rest \div u, x.exp + y.exp + MantissaBits - 6, rest % u # 0))

\* x + y in float, for x and y that are not negative.  (A float += double is
\* computed in double, where the sum of two floats this close is exact, and
\* then rounded to float: the same value.)
FAdd(x, y) ==
  IF x.mant = 0 THEN y
  ELSE IF y.mant = 0 THEN x
  ELSE LET a == IF x.exp >= y.exp THEN x ELSE y
           b == IF x.exp >= y.exp THEN y ELSE x
           d == a.exp - b.exp
       IN IF d > MantissaBits + 1 THEN a
          ELSE Pack(a.mant * 2^6 + (b.mant * 2^6) \div 2^d, a.exp - 6,
                    (b.mant * 2^6) % 2^d # 0)

\* x < y
FLess(x, y) ==
  IF x.mant <= 0 \/ y.mant <= 0 THEN x.mant < y.mant /\ (x.mant < 0 \/ y.mant > 0)
  ELSE x.exp < y.exp \/ (x.exp = y.exp /\ x.mant < y.mant)

\* abundances[i]: past the end of the vector the read is out of bounds and
\* yields whatever float lies there
AbundanceAt(abundances, i) ==
  IF i <= Len(abundances) THEN {abundances[i]} ELSE Abundances

ReadsPastEnd(hashes, abundances) == Len(hashes) > Len(abundances)

ContributionCappedAtOne(score) == IF ~FLess(score, One) THEN One ELSE score

\* if (score >= 2) += 2; else += score;   (uncapped: += score)
Contribution(score) == IF ~FLess(score, F(2)) THEN F(2) ELSE score

Added(m, k, d) == [m EXCEPT ![Find(m, k)].val = FAdd(@, d)]

RECURSIVE WeightedAddHashesFrom(_, _, _, _, _)
WeightedAddHashesFrom(m, hashes, abundances, inv_mean_abundance, i) ==
  IF i > Len(hashes) THEN {m}
  ELSE UNION {WeightedAddHashesFrom(
                Added(m1, hashes[i], Contribution(FMul(a, inv_mean_abundance))),
                hashes, abundances, inv_mean_abundance, i + 1) :
                m1 \in Emplace(m, hashes[i], Zero), a \in AbundanceAt(abundances, i)}

RECURSIVE UncappedAddHashesFrom(_, _, _, _, _)
UncappedAddHashesFrom(m, hashes, abundances, inv_mean_abundance, i) ==
  IF i > Len(hashes) THEN {m}
  ELSE UNION {UncappedAddHashesFrom(
                Added(m1, hashes[i], FMul(a, inv_mean_abundance)),
                hashes, abundances, inv_mean_abundance, i + 1) :
                m1 \in Emplace(m, hashes[i], Zero), a \in AbundanceAt(abundances, i)}

\* the code checks nothing: the call always returns normally
weighted_add_hashes ==
  /\ kind = "weighted"
  /\ \E hashes \in Batches, abundances \in SeqsUpTo(Abundances, MaxLen),
        mean_abundance \in Means :
       /\ WithinBound(hashes)
       /\ \E m \in WeightedAddHashesFrom(hash_to_score, hashes, abundances,
                                          FDiv(One, mean_abundance), 1) :
            hash_to_score' = m
       /\ occ' = OccAfter(hashes)
       /\ unit' = UnitAfter(hashes, abundances, mean_abundance)
       /\ oob' = ReadsPastEnd(hashes, abundances)
       /\ dangling' = FALSE
       /\ lastOp' = Op("add_hashes", Mismatch(hashes, abundances))
  /\ ret' = Void
  /\ UNCHANGED <<kind, hash_to_count, hybrid, samples, exact, pruned>>
  /\ UNCHANGED concVars

uncapped_add_hashes ==
  /\ kind = "uncapped"
  /\ \E hashes \in Batches, abundances \in SeqsUpTo(Abundances, MaxLen),
        mean_abundance \in Means :
       /\ WithinBound(hashes)
       /\ \E m \in UncappedAddHashesFrom(hash_to_score, hashes, abundances,
                                          FDiv(One, mean_abundance), 1) :
            hash_to_score' = m
       /\ occ' = OccAfter(hashes)
       /\ unit' = UnitAfter(hashes, abundances, mean_abundance)
       /\ oob' = ReadsPastEnd(hashes, abundances)
       /\ dangling' = FALSE
       /\ lastOp' = Op("add_hashes", Mismatch(hashes, abundances))
  /\ ret' = Void
  /\ UNCHANGED <<kind, hash_to_count, hybrid, samples, exact, pruned>>
  /\ UNCHANGED concVars

\* static_cast<uint32_t>(float) of a score, which is never negative here
Truncated(score) ==
  IF score.exp >= 0 THEN score.mant * 2^score.exp
  ELSE IF 0 - score.exp > MantissaBits THEN 0
  ELSE score.mant \div 2^(0 - score.exp)

\* hash_to_count[k] = v
Assigned(m, k, v) == {[m1 EXCEPT ![Find(m1, k)].val = v] : m1 \in Emplace(m, k, 0)}

\* hash_to_score.erase(it) drops the returned cursor, and the loop's ++it then
\* advances the cursor of the record just erased.  That cursor is invalid: where
\* the ++ lands is not defined; it is taken to land on the record that followed
\* or on any later position up to end().
AdvanceErased(m, it) == it..(Len(m) + 1)

\* the loop of round_scores from cursor it: the maps it can end with, what it
\* returns, and how many times it advanced an erased cursor
RECURSIVE RoundScoresFrom(_, _, _, _, _)
RoundScoresFrom(score, count, it, skipped, advanced) ==
  IF it > Len(score)
  THEN {[score |-> score, count |-> count, ret |-> skipped, advanced |-> advanced]}
  ELSE LET rounded_score == Truncated(score[it].val)
           counts == IF rounded_score > 1
                     THEN Assigned(count, score[it].key, rounded_score)
                     ELSE {count}
           n == IF rounded_score > 1 THEN skipped ELSE skipped + 1
           erased == EraseAt(score, it)
       IN UNION {RoundScoresFrom(erased, c, nxt, n, advanced + 1) :
                   c \in counts, nxt \in AdvanceErased(erased, it)}

\* WeightedHashesCounter::round_scores, inherited by the uncapped variant
round_scores ==
  /\ kind \in {"weighted", "uncapped"}
  /\ \E r \in RoundScoresFrom(hash_to_score, hash_to_count, 1, 0, 0) :
       /\ hash_to_score' = r.score
       /\ hash_to_count' = r.count
       /\ ret' = Number(r.ret)
       /\ dangling' = (r.advanced > 0)
       /\ occ' = Forget(occ, Keys(r.score) \cup Keys(r.count))
       /\ unit' = ForgetUnit(Keys(r.score) \cup Keys(r.count))
  /\ lastOp' = Op("round_scores", 0)
  /\ pruned' = TRUE
  /\ oob' = FALSE
  /\ UNCHANGED <<kind, hybrid, samples, exact>>
  /\ UNCHANGED concVars

\* WeightedHashesCounter::get_kmers, inherited by the uncapped variant
WeightedGetKmers(m) == AsMap(m)

weighted_get_kmers ==
  /\ kind \in {"weighted", "uncapped"}
  /\ ret' = Mapping(WeightedGetKmers(hash_to_count))
  /\ lastOp' = Op("get_kmers", 0)
  /\ oob' = FALSE
  /\ dangling' = FALSE
  /\ UNCHANGED <<kind, hash_to_count, hash_to_score, hybrid, occ, samples, unit, exact, pruned>>
  /\ UNCHANGED concVars

weighted_size ==
  /\ kind \in {"weighted", "uncapped"}
  /\ ret' = Number(Size(hash_to_count))
  /\ lastOp' = Op("size", 0)
  /\ oob' = FALSE
  /\ dangling' = FALSE
  /\ UNCHANGED <<kind, hash_to_count, hash_to_score, hybrid, occ, samples, unit, exact, pruned>>
  /\ UNCHANGED concVars

RECURSIVE WeightedKeepMinAbundanceInclusive(_, _, _)
WeightedKeepMinAbundanceInclusive(m, it, min_abundance) ==
  IF it > Len(m) THEN m
  ELSE IF m[it].val <= min_abundance
       THEN WeightedKeepMinAbundanceInclusive(EraseAt(m, it), it, min_abundance)
  ELSE WeightedKeepMinAbundanceInclusive(m, it + 1, min_abundance)

\* WeightedHashesCounter::keep_min_abundance, inherited by the uncapped variant
RECURSIVE WeightedKeepMinAbundanceFrom(_, _, _)
WeightedKeepMinAbundanceFrom(m, it, min_abundance) ==
  IF it > Len(m) THEN m
  ELSE IF m[it].val < min_abundance
       THEN WeightedKeepMinAbundanceFrom(EraseAt(m, it), it, min_abundance)
  ELSE WeightedKeepMinAbundanceFrom(m, it + 1, min_abundance)

weighted_keep_min_abundance ==
  /\ kind \in {"weighted", "uncapped"}
  /\ \E min_abundance \in Thresholds :
       /\ hash_to_count' = WeightedKeepMinAbundanceFrom(hash_to_count, 1, min_abundance)
       /\ occ' = Forget(occ, Keys(hash_to_count') \cup Keys(hash_to_score))
       /\ unit' = ForgetUnit(Keys(hash_to_count') \cup Keys(hash_to_score))
       /\ lastOp' = [name |-> "keep_min_abundance", arg |-> min_abundance,
                     repeat |-> (lastOp.name = "keep_min_abundance"
                                 /\ lastOp.arg = min_abundance)]
  /\ ret' = Void
  /\ pruned' = TRUE
  /\ oob' = FALSE
  /\ dangling' = FALSE
  /\ UNCHANGED <<kind, hash_to_score, hybrid, samples, exact>>
  /\ UNCHANGED concVars

\* ------------------------------------- SamplesKmerDosageHybridCounter
\* a record's value is the tuple <<sample count, accumulated dosage>>
SampleCount(v) == v[1]
Dosage(v) == v[2]

\* try_emplace(hashes[i], 1, kmer_dosage); if (!inserted) { count++; dosage += kmer_dosage; }
HybridEmplaced(m, k, kmer_dosage) ==
  IF k \in Keys(m)
  THEN {[m EXCEPT ![Find(m, k)].val = <<SampleCount(@) + 1, FAdd(Dosage(@), kmer_dosage)>>]}
  ELSE Emplace(m, k, <<1, kmer_dosage>>)

\* the loop of add_hashes from index i: the maps it can end with, whether it
\* threw, and how many elements it had applied by then
RECURSIVE HybridAddHashesFrom(_, _, _, _, _)
HybridAddHashesFrom(m, hashes, abundances, inv_mean_abundance, i) ==
  IF i > Len(hashes) THEN {[map |-> m, ret |-> "void", applied |-> i - 1]}
  ELSE LET kmer_dosage == FMul(abundances[i], inv_mean_abundance) IN
       IF FLess(kmer_dosage, Zero)
       THEN {[map |-> m, ret |-> "invalid_argument", applied |-> i - 1]}
       ELSE UNION {HybridAddHashesFrom(m1, hashes, abundances, inv_mean_abundance, i + 1) :
                     m1 \in HybridEmplaced(m, hashes[i], kmer_dosage)}

HybridAddHashesCheckedLate(m, hashes, abundances, mean_abundance) ==
  IF Len(hashes) # Len(abundances)
  THEN LET n == IF Len(hashes) < Len(abundances) THEN Len(hashes) ELSE Len(abundances)
       IN {[map |-> r.map, ret |-> "invalid_argument", applied |-> r.applied] :
             r \in HybridAddHashesFrom(m, SubSeq(hashes, 1, n), SubSeq(abundances, 1, n),
                                       FDiv(One, mean_abundance), 1)}
  ELSE HybridAddHashesFrom(m, hashes, abundances, FDiv(One, mean_abundance), 1)

HybridAddHashes(m, hashes, abundances, mean_abundance) ==
  IF Len(hashes) # Len(abundances)
  THEN {[map |-> m, ret |-> "invalid_argument", applied |-> 0]}
  ELSE HybridAddHashesFrom(m, hashes, abundances, FDiv(One, mean_abundance), 1)

\* twice abundances[i] / mean_abundance, as whole numbers. The sum of the
\* quotients is kept in halves, so the batches drawn are those whose quotients
\* are multiples of 0.5 (41.0f / 82.0f is; 2.0f / 82.0f is not)
InHalves(abundances, mean_abundance) ==
  \A i \in 1..Len(abundances) :
    \/ FLess(abundances[i], Zero)
    \/ (2 * Truncated(abundances[i])) % Truncated(mean_abundance) = 0

TwiceQuotient(abundances, mean_abundance) ==
  [i \in 1..Len(abundances) |->
     IF FLess(abundances[i], Zero) THEN 0
     ELSE (2 * Truncated(abundances[i])) \div Truncated(mean_abundance)]

hybrid_add_hashes ==
  /\ kind = "hybrid"
  /\ \E hashes \in Batches,
        abundances \in SeqsUpTo(HybridAbundances \cup NegAbundances, MaxLen),
        mean_abundance \in HybridMeans :
       /\ WithinBound(hashes)
       /\ InHalves(abundances, mean_abundance)
       /\ \E r \in HybridAddHashes(hybrid, hashes, abundances, mean_abundance) :
            /\ hybrid' = r.map
            /\ ret' = (IF r.ret = "void" THEN Void ELSE Thrown(r.ret))
            /\ occ' = OccAfter(SubSeq(hashes, 1, r.applied))
            /\ samples' = SamplesAfter(SubSeq(hashes, 1, r.applied))
            /\ exact' = ExactAfter(exact, SubSeq(hashes, 1, r.applied),
                                   TwiceQuotient(abundances, mean_abundance), 1)
       /\ lastOp' = Op("add_hashes", Mismatch(hashes, abundances))
  /\ oob' = FALSE
  /\ dangling' = FALSE
  /\ UNCHANGED <<kind, hash_to_count, hash_to_score, unit, pruned>>
  /\ UNCHANGED concVars

RoundedTowardZero(dosage) ==
  IF dosage.exp >= 0 THEN dosage.mant * 2^dosage.exp
  ELSE IF 0 - dosage.exp > MantissaBits THEN 0
  ELSE dosage.mant \div 2^(0 - dosage.exp)

\* static_cast<uint32_t>(std::round(dosage)): to nearest, halves away from zero;
\* a stored dosage is never negative
Rounded(dosage) ==
  IF dosage.exp >= 0 THEN dosage.mant * 2^dosage.exp
  ELSE IF 0 - dosage.exp > MantissaBits THEN 0
  ELSE (dosage.mant + 2^(0 - dosage.exp - 1)) \div 2^(0 - dosage.exp)

\* for (it = begin(); it != end();) if (count < 2) { n++; it = erase(it); } else ++it;
RECURSIVE HybridRoundScoresRounding(_, _, _)
HybridRoundScoresRounding(m, it, n) ==
  IF it > Len(m) THEN [map |-> m, ret |-> n]
  ELSE IF SampleCount(m[it].val) < 2
       THEN HybridRoundScoresRounding(EraseAt(m, it), it, n + 1)
  ELSE HybridRoundScoresRounding(
         [m EXCEPT ![it].val = <<SampleCount(@), F(Rounded(Dosage(@)))>>],
         it + 1, n)

RECURSIVE HybridRoundScoresFrom(_, _, _)
HybridRoundScoresFrom(m, it, n) ==
  IF it > Len(m) THEN [map |-> m, ret |-> n]
  ELSE IF SampleCount(m[it].val) < 2 THEN HybridRoundScoresFrom(EraseAt(m, it), it, n + 1)
  ELSE HybridRoundScoresFrom(m, it + 1, n)

hybrid_round_scores ==
  /\ kind = "hybrid"
  /\ LET r == HybridRoundScoresFrom(hybrid, 1, 0) IN
       /\ hybrid' = r.map
       /\ ret' = Number(r.ret)
       /\ occ' = Forget(occ, Keys(r.map))
       /\ samples' = Forget(samples, Keys(r.map))
       /\ exact' = Forget(exact, Keys(r.map))
  /\ lastOp' = Op("round_scores", 0)
  /\ pruned' = TRUE
  /\ oob' = FALSE
  /\ dangling' = FALSE
  /\ UNCHANGED <<kind, hash_to_count, hash_to_score, unit>>
  /\ UNCHANGED concVars

hybrid_size ==
  /\ kind = "hybrid"
  /\ ret' = Number(Size(hybrid))
  /\ lastOp' = Op("size", 0)
  /\ oob' = FALSE
  /\ dangling' = FALSE
  /\ UNCHANGED <<kind, hash_to_count, hash_to_score, hybrid, occ, samples, unit, exact, pruned>>
  /\ UNCHANGED concVars

\* result[it.first] = make_tuple(count, rounded_dosage) for every record
HybridGetKmers(m) ==
  [k \in Keys(m) |-> <<SampleCount(Lookup(m, k)), Rounded(Dosage(Lookup(m, k)))>>]

\* the three array exports each walk the table from begin() to end()
GetHashes(m) == [i \in 1..Len(m) |-> m[i].key]

GetSampleCountsBackwards(m) == [i \in 1..Len(m) |-> SampleCount(m[Len(m) + 1 - i].val)]
GetSampleCounts(m) == [i \in 1..Len(m) |-> SampleCount(m[i].val)]

GetKmerDosages(m) == [i \in 1..Len(m) |-> Rounded(Dosage(m[i].val))]

hybrid_get_kmers ==
  /\ kind = "hybrid"
  /\ ret' = Mapping(HybridGetKmers(hybrid))
  /\ lastOp' = Op("get_kmers", 0)
  /\ oob' = FALSE
  /\ dangling' = FALSE
  /\ UNCHANGED <<kind, hash_to_count, hash_to_score, hybrid, occ, samples, unit, exact, pruned>>
  /\ UNCHANGED concVars

get_hashes ==
  /\ kind = "hybrid"
  /\ ret' = Array(GetHashes(hybrid))
  /\ lastOp' = Op("get_hashes", 0)
  /\ oob' = FALSE
  /\ dangling' = FALSE
  /\ UNCHANGED <<kind, hash_to_count, hash_to_score, hybrid, occ, samples, unit, exact, pruned>>
  /\ UNCHANGED concVars

get_sample_counts ==
  /\ kind = "hybrid"
  /\ ret' = Array(GetSampleCounts(hybrid))
  /\ lastOp' = Op("get_sample_counts", 0)
  /\ oob' = FALSE
  /\ dangling' = FALSE
  /\ UNCHANGED <<kind, hash_to_count, hash_to_score, hybrid, occ, samples, unit, exact, pruned>>
  /\ UNCHANGED concVars

get_kmer_dosages ==
  /\ kind = "hybrid"
  /\ ret' = Array(GetKmerDosages(hybrid))
  /\ lastOp' = Op("get_kmer_dosages", 0)
  /\ oob' = FALSE
  /\ dangling' = FALSE
  /\ UNCHANGED <<kind, hash_to_count, hash_to_score, hybrid, occ, samples, unit, exact, pruned>>
  /\ UNCHANGED concVars

\* ------------------------------------------------- sequential behaviour
ConcIdle ==
  /\ lock = [s \in Submaps |-> 0]
  /\ batch = [t \in Threads |-> << >>]
  /\ pc = [t \in Threads |-> "done"]
  /\ idx = [t \in Threads |-> 1]
  /\ tmp = [t \in Threads |-> 0]
  /\ stale = [t \in Threads |-> FALSE]
  /\ subidx = [h \in Hashes |-> 0]

Fresh ==
  /\ hash_to_count = << >>
  /\ hash_to_score = << >>
  /\ hybrid = << >>
  /\ lastOp = NoOp
  /\ ret = Void
  /\ oob = FALSE
  /\ occ = [k \in Hashes |-> 0]
  /\ samples = [k \in Hashes |-> 0]
  /\ unit = [k \in Hashes |-> TRUE]
  /\ exact = [k \in Hashes |-> 0]
  /\ dangling = FALSE
  /\ pruned = FALSE

\* one object of one of the three classes that count into hash_to_count
Init ==
  /\ kind \in {"presence", "weighted", "uncapped"}
  /\ Fresh
  /\ ConcIdle

Next ==
  \/ add_hashes
  \/ remove_singletons
  \/ keep_min_abundance
  \/ size
  \/ get_kmers
  \/ weighted_add_hashes
  \/ uncapped_add_hashes
  \/ round_scores
  \/ weighted_get_kmers
  \/ weighted_size
  \/ weighted_keep_min_abundance

Spec == Init /\ [][Next]_vars

\* one SamplesKmerDosageHybridCounter
InitHybrid ==
  /\ kind = "hybrid"
  /\ Fresh
  /\ ConcIdle

NextHybrid ==
  \/ hybrid_add_hashes
  \/ hybrid_round_scores
  \/ hybrid_size
  \/ hybrid_get_kmers
  \/ get_hashes
  \/ get_sample_counts
  \/ get_kmer_dosages

SpecHybrid == InitHybrid /\ [][NextHybrid]_vars

\* ------------------------------- concurrent HashesCounter::add_hashes
\* Producer threads run add_hashes on one HashesCounter.  One iteration,
\* hash_to_count[hash_val]++, is: operator[] locks the submap of the key,
\* finds or inserts the record, unlocks and returns a reference to the value;
\* the ++ then loads and stores through that reference with no lock held.
Current(t) == batch[t][idx[t]]

Acquire(t) ==
  /\ pc[t] = "lock"
  /\ lock[subidx[Current(t)]] = 0
  /\ lock' = [lock EXCEPT ![subidx[Current(t)]] = t]
  /\ pc' = [pc EXCEPT ![t] = "emplace"]
  /\ UNCHANGED <<batch, idx, tmp, stale, subidx>>
  /\ UNCHANGED seqVars

\* an insertion may regrow the submap's table, which moves its records: the
\* references other threads hold into that submap then dangle
HoldsReference(u, s) == pc[u] \in {"load", "store"} /\ subidx[Current(u)] = s

FindOrInsert(t) ==
  /\ pc[t] = "emplace"
  /\ \E m \in Emplace(hash_to_count, Current(t), 0), regrown \in BOOLEAN :
       /\ hash_to_count' = m
       /\ stale' = [u \in Threads |->
                      \/ stale[u]
                      \/ /\ regrown
                         /\ Current(t) \notin Keys(hash_to_count)
                         /\ u # t
                         /\ HoldsReference(u, subidx[Current(t)])]
  /\ pc' = [pc EXCEPT ![t] = "unlock"]
  /\ UNCHANGED <<lock, batch, idx, tmp, subidx>>
  /\ UNCHANGED <<kind, hash_to_score, hybrid, lastOp, ret, oob, dangling, occ, samples, unit, exact, pruned>>

ReleaseKeepsLock(t) ==
  /\ pc[t] = "unlock"
  /\ lock' = lock
  /\ pc' = [pc EXCEPT ![t] = "load"]
  /\ UNCHANGED <<batch, idx, tmp, stale, subidx>>
  /\ UNCHANGED seqVars

Release(t) ==
  /\ pc[t] = "unlock"
  /\ lock' = [lock EXCEPT ![subidx[Current(t)]] = 0]
  /\ pc' = [pc EXCEPT ![t] = "load"]
  /\ UNCHANGED <<batch, idx, tmp, stale, subidx>>
  /\ UNCHANGED seqVars

\* a dangling reference reads whatever the freed table holds
Load(t) ==
  /\ pc[t] = "load"
  /\ \E v \in 0..MaxIngested :
       /\ stale[t] \/ v = Lookup(hash_to_count, Current(t))
       /\ tmp' = [tmp EXCEPT ![t] = v]
  /\ pc' = [pc EXCEPT ![t] = "store"]
  /\ UNCHANGED <<lock, batch, idx, stale, subidx>>
  /\ UNCHANGED seqVars

\* a dangling reference writes into the freed table, not into the map
Stored(m, k, v) == [m EXCEPT ![Find(m, k)].val = v]

Store(t) ==
  /\ pc[t] = "store"
  /\ hash_to_count' = IF stale[t] THEN hash_to_count
                      ELSE Stored(hash_to_count, Current(t), tmp[t] + 1)
  /\ stale' = [stale EXCEPT ![t] = FALSE]
  /\ tmp' = [tmp EXCEPT ![t] = 0]
  /\ idx' = [idx EXCEPT ![t] = IF idx[t] < Len(batch[t]) THEN idx[t] + 1 ELSE idx[t]]
  /\ pc' = [pc EXCEPT ![t] = IF idx[t] < Len(batch[t]) THEN "lock" ELSE "done"]
  /\ UNCHANGED <<lock, batch, subidx>>
  /\ UNCHANGED <<kind, hash_to_score, hybrid, lastOp, ret, oob, dangling, occ, samples, unit, exact, pruned>>

\* the hash function decides the submap of a key: any assignment is possible
\* (submaps are numbered in the order the keys first use them)
SubmapChoices ==
  {f \in [Hashes -> Submaps] :
     \A h \in Hashes : /\ f[h] <= h - 1
                        /\ h > 1 => \E g \in 1..(h - 1) : f[h] <= f[g] + 1}

InitConc ==
  /\ kind = "presence"
  /\ Fresh
  /\ subidx \in SubmapChoices
  /\ batch \in [Threads -> Batches]
  /\ SumOver([t \in Threads |-> Len(batch[t])], Threads) < MaxIngested
  /\ pc = [t \in Threads |-> IF Len(batch[t]) = 0 THEN "done" ELSE "lock"]
  /\ idx = [t \in Threads |-> 1]
  /\ tmp = [t \in Threads |-> 0]
  /\ stale = [t \in Threads |-> FALSE]
  /\ lock = [s \in Submaps |-> 0]

NextConc ==
  \/ \E t \in Threads : Acquire(t)
  \/ \E t \in Threads : FindOrInsert(t)
  \/ \E t \in Threads : Release(t)
  \/ \E t \in Threads : Load(t)
  \/ \E t \in Threads : Store(t)

SpecConc == InitConc /\ [][NextConc]_vars

\* every producer's add_hashes call has returned
AllReturned == \A t \in Threads : pc[t] = "done"

\* ------------- producers that join, then the calls of a single thread
\* Either producers ingest concurrently into a HashesCounter and, once all of
\* them have returned, one thread goes on calling it; or one thread calls a
\* counter of any class from the start.  A thread inside add_hashes that can
\* take a step is eventually scheduled.
Step(t) == Acquire(t) \/ FindOrInsert(t) \/ Release(t) \/ Load(t) \/ Store(t)

InitLive == InitConc \/ Init

NextLive ==
  \/ NextConc
  \/ AllReturned /\ Next

SpecLive == InitLive /\ [][NextLive]_vars /\ \A t \in Threads : WF_concVars(Step(t))

\* ------------------------------------------------------------ claims

\* occurrences of hash k over the batches of all producers
Occurrences(k) == SumOver([t \in Threads |-> CountIn(batch[t], k)], Threads)

\* C1: ingest is safe under concurrent calls: once every call has returned, the
\* count recorded for each hash is the number of its occurrences over all the
\* batches (no increment is lost)
C1_NoLostIncrement ==
  AllReturned =>
    \A k \in Hashes :
      IF Occurrences(k) = 0 THEN k \notin Keys(hash_to_count)
      ELSE k \in Keys(hash_to_count) /\ Lookup(hash_to_count, k) = Occurrences(k)

Seen == {k \in Hashes : occ[k] > 0}

\* C2: on a fresh PresenceCounter, with no prune between the ingest calls,
\* size() is the number of distinct hashes that occurred in the batches
C2_SizeIsDistinctHashes ==
  (kind = "presence" /\ ~pruned /\ lastOp.name = "size") => ret = Number(Cardinality(Seen))

C2_Witness ==
  /\ kind = "presence" /\ ~pruned /\ lastOp.name = "size"
  /\ ret = Number(2)
  /\ \E k \in Hashes : occ[k] >= 2

\* C3: on a fresh PresenceCounter, with no prune between the ingest calls,
\* export() maps every ingested hash to the number of times it occurred
C3_ExportCountsOccurrences ==
  (kind = "presence" /\ ~pruned /\ lastOp.name = "get_kmers") =>
    ret = Mapping([k \in Seen |-> occ[k]])

\* the scenario ingest([5,5,7]): one hash counted twice, another once
C3_Witness ==
  /\ kind = "presence" /\ ~pruned /\ lastOp.name = "get_kmers"
  /\ \E k1, k2 \in DOMAIN ret.mapping : ret.mapping[k1] = 2 /\ ret.mapping[k2] = 1

\* C4: drop_singletons removes exactly the records whose count is 1, leaves
\* the count of every other record as it was, and returns r such that
\* size() after the call is size() before it minus r
C4_DropSingletons ==
  [][(kind = "presence" /\ lastOp'.name = "remove_singletons") =>
       /\ Keys(hash_to_count') =
            {k \in Keys(hash_to_count) : Lookup(hash_to_count, k) # 1}
       /\ \A k \in Keys(hash_to_count') :
            Lookup(hash_to_count', k) = Lookup(hash_to_count, k)
       /\ Size(hash_to_count') = Size(hash_to_count) - ret'.number]_vars

C4_Witness ==
  /\ kind = "presence" /\ lastOp.name = "remove_singletons"
  /\ ret.number >= 1
  /\ Size(hash_to_count) >= 1

\* C5: keep_min_abundance(t) is idempotent: a second call with the same t,
\* right after the first, changes neither the counts nor the scores
C5_KeepMinIdempotent ==
  [][(lastOp'.name = "keep_min_abundance" /\ lastOp'.repeat) =>
       /\ hash_to_count' = hash_to_count
       /\ hash_to_score' = hash_to_score]_vars

C5_Witness ==
  /\ kind = "weighted"
  /\ lastOp.name = "keep_min_abundance" /\ lastOp.repeat /\ lastOp.arg = 3
  /\ Size(hash_to_count) >= 1
  /\ Size(hash_to_score) >= 1

\* C6: after any sequence of ingest and round_scores calls, every hash whose
\* score at a round_scores call truncates to <= 1 is absent from export()
\* after that call, and the call returns the number of such hashes
C6_RoundScoresDropsLow ==
  [][(lastOp'.name = "round_scores") =>
       LET low == {k \in Keys(hash_to_score) :
                     Truncated(Lookup(hash_to_score, k)) <= 1}
       IN /\ \A k \in low : k \notin DOMAIN WeightedGetKmers(hash_to_count')
          /\ ret' = Number(Cardinality(low))]_vars

\* C7: WeightedCounter.ingest with len(hashes) # len(abundances) fails with
\* invalid-argument and does not read past the end of abundances
C7_LengthMismatchRejected ==
  (kind \in {"weighted", "uncapped"} /\ lastOp.name = "add_hashes" /\ lastOp.arg = 1) =>
    (ret = Thrown("invalid_argument") /\ ~oob)

\* C8: the sample-count of a record is the number of ingest calls whose batch
\* held the hash (repeats inside one batch count once), and a hash that was in
\* only one ingest call is removed by finalize()
C8_SampleCountIsCalls ==
  [][/\ ~pruned' =>
          \A k \in Keys(hybrid') : SampleCount(Lookup(hybrid', k)) = samples'[k]
     /\ lastOp'.name = "round_scores" =>
          \A k \in Keys(hybrid) : samples[k] = 1 => k \notin Keys(hybrid')]_vars

\* C9: finalize removes exactly the records whose sample-count is < 2, returns
\* the number of records removed, and leaves the sample-count and the
\* unrounded dosage of every surviving record as they were
C9_FinalizeFrame ==
  [][(kind = "hybrid" /\ lastOp'.name = "round_scores") =>
       /\ Keys(hybrid') = {k \in Keys(hybrid) : SampleCount(Lookup(hybrid, k)) >= 2}
       /\ ret' = Number(Size(hybrid) - Size(hybrid'))
       /\ \A k \in Keys(hybrid') : Lookup(hybrid', k) = Lookup(hybrid, k)]_vars

\* a record was removed, and one with a dosage that is no whole number stays
C9_Witness ==
  /\ kind = "hybrid" /\ lastOp.name = "round_scores"
  /\ ret.number >= 1
  /\ \E i \in 1..Len(hybrid) : F(Rounded(Dosage(hybrid[i].val))) # Dosage(hybrid[i].val)

\* C10: the array exports, called with no mutation in between, have the
\* length size(); position i of the sample counts and of the rounded dosages
\* describes the record whose hash is at position i, and agrees with the pair
\* the mapping export gives for that hash.  (An export leaves the map as it is,
\* so what the other exports return around a call is their value on this state.)
C10_ExportsAligned ==
  kind = "hybrid" =>
    LET hs == GetHashes(hybrid)
        cs == GetSampleCounts(hybrid)
        ds == GetKmerDosages(hybrid)
        km == HybridGetKmers(hybrid)
    IN /\ lastOp.name = "get_hashes" =>
            /\ Len(ret.array) = Size(hybrid) /\ Len(cs) = Len(ret.array) /\ Len(ds) = Len(ret.array)
            /\ \A i \in 1..Len(ret.array) :
                 /\ cs[i] = SampleCount(Lookup(hybrid, ret.array[i]))
                 /\ ds[i] = Rounded(Dosage(Lookup(hybrid, ret.array[i])))
                 /\ km[ret.array[i]] = <<cs[i], ds[i]>>
       /\ lastOp.name = "get_sample_counts" =>
            /\ Len(ret.array) = Size(hybrid) /\ Len(hs) = Len(ret.array)
            /\ \A i \in 1..Len(ret.array) :
                 /\ ret.array[i] = SampleCount(Lookup(hybrid, hs[i]))
                 /\ ret.array[i] = km[hs[i]][1]
       /\ lastOp.name = "get_kmer_dosages" =>
            /\ Len(ret.array) = Size(hybrid) /\ Len(hs) = Len(ret.array)
            /\ \A i \in 1..Len(ret.array) :
                 /\ ret.array[i] = Rounded(Dosage(Lookup(hybrid, hs[i])))
                 /\ ret.array[i] = km[hs[i]][2]

\* two records that differ in sample count and in rounded dosage
C10_Witness ==
  /\ kind = "hybrid" /\ lastOp.name = "get_sample_counts"
  /\ Len(ret.array) = 2 /\ ret.array[1] # ret.array[2]
  /\ GetKmerDosages(hybrid)[1] # GetKmerDosages(hybrid)[2]

\* C11: HybridDosageCounter.ingest with len(hashes) # len(abundances) fails with
\* invalid-argument before it mutates anything: the records, their order, their
\* sample-counts and their dosages are after the call what they were before
C11_HybridLengthMismatchRejected ==
  [][(kind = "hybrid" /\ lastOp'.name = "add_hashes" /\ lastOp'.arg = 1) =>
       (ret' = Thrown("invalid_argument") /\ hybrid' = hybrid)]_vars

C11_Witness ==
  /\ kind = "hybrid" /\ lastOp.name = "add_hashes" /\ lastOp.arg = 1
  /\ ret = Thrown("invalid_argument")
  /\ Size(hybrid) >= 1

\* C12: in the weighted counter no hash has an accumulating score and a
\* finalized count at the same time, in any state that ingest, round_scores
\* and keep_min_abundance calls can reach
C12_PhasesExclusive ==
  kind \in {"weighted", "uncapped"} =>
    Keys(hash_to_score) \cap Keys(hash_to_count) = {}

\* C13: in both weighted variants, before any finalize pass, a hash all of
\* whose n ingested occurrences had abundances[i] == mean_abundance has the
\* score exactly n, and round_scores then keeps it with count n when n >= 2
C13_UnitContributions ==
  [][/\ (kind' \in {"weighted", "uncapped"} /\ ~pruned') =>
          \A k \in Keys(hash_to_score') :
            unit'[k] => Lookup(hash_to_score', k) = F(occ'[k])
     /\ (kind \in {"weighted", "uncapped"} /\ ~pruned /\ lastOp'.name = "round_scores") =>
          \A k \in Keys(hash_to_score) :
            (unit[k] /\ occ[k] >= 2) =>
              (k \in Keys(hash_to_count') /\ Lookup(hash_to_count', k) = occ[k])]_vars

\* twice the largest sum every float below it holds exactly, in halves
ExactlyHeld == 2^MantissaBits

Halves(n) == [F(n) EXCEPT !.exp = @ - 1]

C15_CursorNeverStale == ~dangling

\* C16: keep_min_abundance(threshold) removes exactly the records whose count
\* is below threshold (a count equal to it survives), leaves the surviving
\* counts as they were, and in the weighted counter leaves the scores alone
C16_KeepMinFrame ==
  [][(lastOp'.name = "keep_min_abundance") =>
       /\ Keys(hash_to_count') =
            {k \in Keys(hash_to_count) : Lookup(hash_to_count, k) >= lastOp'.arg}
       /\ \A k \in Keys(hash_to_count') :
            Lookup(hash_to_count', k) = Lookup(hash_to_count, k)
       /\ hash_to_score' = hash_to_score]_vars

\* a finalized count equal to the threshold survived, beside a pending score
C16_Witness ==
  /\ kind = "weighted"
  /\ lastOp.name = "keep_min_abundance" /\ ~lastOp.repeat /\ lastOp.arg >= 2
  /\ \E k \in Keys(hash_to_count) : Lookup(hash_to_count, k) = lastOp.arg
  /\ Size(hash_to_score) >= 1

ScoreOf(m, k) == IF k \in Keys(m) THEN Lookup(m, k) ELSE Zero

\* C17: from any reachable score table, one contribution adds min(normalized,
\* 2.0) in the capped variant and normalized in the uncapped one, the two
\* variants agree when normalized < 2.0, and a capped score never exceeds 2.0
\* times the number of contributions
C17_CapIsTwo ==
  kind \in {"weighted", "uncapped"} =>
    /\ \A k \in Hashes, a \in Abundances, mean_abundance \in Means :
         LET inv_mean_abundance == FDiv(One, mean_abundance)
             normalized == FMul(a, inv_mean_abundance)
             old == ScoreOf(hash_to_score, k)
             capped == WeightedAddHashesFrom(hash_to_score, <<k>>, <<a>>,
                                             inv_mean_abundance, 1)
             uncapped == UncappedAddHashesFrom(hash_to_score, <<k>>, <<a>>,
                                               inv_mean_abundance, 1)
         IN /\ \A m \in capped :
                 Lookup(m, k) = FAdd(old, IF FLess(normalized, F(2)) THEN normalized
                                          ELSE F(2))
            /\ \A m \in uncapped : Lookup(m, k) = FAdd(old, normalized)
            /\ FLess(normalized, F(2)) => capped = uncapped
    /\ (kind = "weighted" /\ ~pruned) =>
         \A k \in Keys(hash_to_score) :
           ~FLess(F(2 * occ[k]), Lookup(hash_to_score, k))

\* two capped contributions: the score is at the bound 2.0 * 2
C17_Witness ==
  /\ kind = "weighted" /\ ~pruned /\ lastOp.name = "add_hashes"
  /\ \E k \in Keys(hash_to_score) :
       occ[k] = 2 /\ Lookup(hash_to_score, k) = F(4)

\* C18: round_scores handles every accumulated score exactly once: it leaves
\* the score table empty, and what it returns plus the number of hashes whose
\* count it wrote is the number of scores it started with
C18_RoundScoresConsumesAll ==
  [][(lastOp'.name = "round_scores" /\ kind \in {"weighted", "uncapped"}) =>
       LET written == {k \in Keys(hash_to_score) :
                         /\ Truncated(Lookup(hash_to_score, k)) > 1
                         /\ k \in Keys(hash_to_count')
                         /\ Lookup(hash_to_count', k) =
                              Truncated(Lookup(hash_to_score, k))}
       IN /\ hash_to_score' = << >>
          /\ ret'.number + Cardinality(written) = Size(hash_to_score)]_vars

\* a call holds at most one submap's mutex, and only inside operator[]
LockDiscipline ==
  \A t \in Threads :
    /\ Cardinality({s \in Submaps : lock[s] = t}) <= 1
    /\ (\E s \in Submaps : lock[s] = t) => pc[t] \in {"emplace", "unlock"}

\* a pass that runs alone returns, and round_scores visits no more records
\* than the score table holds
PassesReturn ==
  AllReturned =>
    /\ kind = "presence" => (ENABLED remove_singletons /\ ENABLED keep_min_abundance)
    /\ kind \in {"weighted", "uncapped"} =>
         /\ ENABLED round_scores
         /\ ENABLED weighted_keep_min_abundance
         /\ \A r \in RoundScoresFrom(hash_to_score, hash_to_count, 1, 0, 0) :
              r.advanced <= Size(hash_to_score)

C20_FailedBatchRejected ==
  [][(kind = "hybrid" /\ lastOp'.name = "add_hashes" /\ ret' = Thrown("invalid_argument")) =>
       hybrid' = hybrid]_vars

====
